---------------------------- MODULE Spec2Model ----------------------------
(***************************************************************************)
(* A model of the PPM decoder LoadPPM of "PPM Viewer 2/main.cpp".          *)
(*                                                                         *)
(* A file is a sequence of bytes (0..255).  LoadPPM is a function of the   *)
(* file's bytes; it is modelled by operators that follow the source path   *)
(* by path (BOM / string parser, raw P6, raw P3), and every result records *)
(* the source line of the return statement it left through.                *)
(*                                                                         *)
(* The display shell (main and WindowProc) is a second state machine over  *)
(* the same decoder: it holds g_image and paints it.                       *)
(***************************************************************************)
EXTENDS Integers, Sequences, FiniteSets, TLC

VARIABLES doc, file, pc, res, alt, toks, g_image, screen

vars == <<doc, file, pc, res, alt, toks, g_image, screen>>

---------------------------------------------------------------------------
(* Machine integers.                                                       *)

\* int is 32 bits wide (std::stoi returns int; r, g, b, maxVal are int).
IntMax == 2147483647
IntMin == -IntMax - 1

\* The pixel-count cap of lines 196, 284 and 354.
MaxPixelCount == 100000000

Min(a, b) == IF a < b THEN a ELSE b
Max(a, b) == IF a > b THEN a ELSE b

---------------------------------------------------------------------------
(* Bytes and byte strings.                                                 *)

\* isspace() in the "C" locale, also the whitespace operator>> skips.
IsSpace(c) == c \in {9, 10, 11, 12, 13, 32}

IsDigit(c) == c >= 48 /\ c <= 57

\* s.substr(n) / s.erase(0, n)
Drop(s, n) == IF n >= Len(s) THEN <<>> ELSE SubSeq(s, n + 1, Len(s))

TokP3 == <<80, 51>>
TokP6 == <<80, 54>>

\* normalizeToken (lines 77-103): strip, until nothing changes, a leading
\* UTF-8 BOM, a leading C2 A0, or a leading byte <= 0x20.
RECURSIVE normalizeToken(_)
normalizeToken(s) ==
    IF s = <<>> THEN s
    ELSE IF Len(s) >= 3 /\ s[1] = 239 /\ s[2] = 187 /\ s[3] = 191
         THEN normalizeToken(Drop(s, 3))
    ELSE IF Len(s) >= 2 /\ s[1] = 194 /\ s[2] = 160
         THEN normalizeToken(Drop(s, 2))
    ELSE IF s[1] <= 32
         THEN normalizeToken(Drop(s, 1))
    ELSE s

\* std::stoi: skip leading whitespace, an optional sign, then decimal
\* digits; trailing bytes are ignored.  No digit: std::invalid_argument.
\* A value outside int: std::out_of_range.  ok = FALSE stands for a throw.
RECURSIVE SkipSpaces(_, _)
SkipSpaces(s, p) ==
    IF p <= Len(s) /\ IsSpace(s[p]) THEN SkipSpaces(s, p + 1) ELSE p

\* Accumulate digits from position p; neg accumulates downwards so that
\* IntMin parses.  Returns [ok, val].
RECURSIVE StoiDigits(_, _, _, _)
StoiDigits(s, p, neg, acc) ==
    IF p > Len(s) \/ ~IsDigit(s[p]) THEN [ok |-> TRUE, val |-> acc]
    ELSE LET d == s[p] - 48
         IN IF neg
            THEN IF acc < (IntMin + d + 9) \div 10
                 THEN [ok |-> FALSE, val |-> 0]
                 ELSE StoiDigits(s, p + 1, neg, acc * 10 - d)
            ELSE IF acc > (IntMax - d) \div 10
                 THEN [ok |-> FALSE, val |-> 0]
                 ELSE StoiDigits(s, p + 1, neg, acc * 10 + d)

stoi(s) ==
    LET p0 == SkipSpaces(s, 1)
        signed == p0 <= Len(s) /\ s[p0] \in {43, 45}
        neg == signed /\ s[p0] = 45
        p1 == IF signed THEN p0 + 1 ELSE p0
    IN IF p1 > Len(s) \/ ~IsDigit(s[p1])
       THEN [ok |-> FALSE, val |-> 0]
       ELSE StoiDigits(s, p1, neg, 0)

---------------------------------------------------------------------------
(* Streams.  A stream is a byte string and a position 1..Len+1; the        *)
(* position Len+1 is end-of-file.  Every read below leaves the stream      *)
(* failed exactly when it ran into end-of-file, so the position alone       *)
(* decides what the next read returns.                                     *)

\* std::getline(stream, rest): consume through the next '\n' (or to EOF).
RECURSIVE GetLine(_, _)
GetLine(s, p) ==
    IF p > Len(s) THEN p
    ELSE IF s[p] = 10 THEN p + 1
    ELSE GetLine(s, p + 1)

\* The position of the first byte at or after p that ends a token of the
\* raw reader: whitespace, '#' or EOF (second loop of nextToken, 241-246).
RECURSIVE RawTokenEnd(_, _)
RawTokenEnd(s, p) ==
    IF p > Len(s) \/ IsSpace(s[p]) \/ s[p] = 35 THEN p
    ELSE RawTokenEnd(s, p + 1)

\* nextToken (lines 227-248), the raw-stream token source.
RECURSIVE nextToken(_, _)
nextToken(s, p) ==
    IF p > Len(s) THEN [ok |-> FALSE, tok |-> <<>>, pos |-> p]
    ELSE IF IsSpace(s[p]) THEN nextToken(s, p + 1)
    ELSE IF s[p] = 35 THEN nextToken(s, GetLine(s, p))
    ELSE LET e == RawTokenEnd(s, p)
         IN [ok |-> e > p, tok |-> SubSeq(s, p, e - 1), pos |-> e]

\* operator>>(ss, out): the end of the whitespace-delimited word at p.
RECURSIVE WordEnd(_, _)
WordEnd(s, p) ==
    IF p > Len(s) \/ IsSpace(s[p]) THEN p ELSE WordEnd(s, p + 1)

\* nextTokenStr (lines 160-172), the in-memory token source: a word that
\* starts with '#' discards the rest of its line; any other word is
\* normalized and returned.
RECURSIVE nextTokenStr(_, _)
nextTokenStr(s, p) ==
    LET b == SkipSpaces(s, p)
    IN IF b > Len(s) THEN [ok |-> FALSE, tok |-> <<>>, pos |-> b]
       ELSE LET e == WordEnd(s, b)
            IN IF s[b] = 35
               THEN nextTokenStr(s, GetLine(s, e))
               ELSE [ok |-> TRUE,
                     tok |-> normalizeToken(SubSeq(s, b, e - 1)),
                     pos |-> e]

---------------------------------------------------------------------------
(* The encoding sniffer (lines 66-156).                                    *)

\* The 16-bit code units of a UTF-16 file after its 2-byte BOM (lines
\* 111-114 and 132-135); an odd trailing byte is ignored.
RECURSIVE WideLE(_, _)
WideLE(raw, i) ==
    IF i + 1 > Len(raw) THEN <<>>
    ELSE <<raw[i] + 256 * raw[i + 1]>> \o WideLE(raw, i + 2)

RECURSIVE WideBE(_, _)
WideBE(raw, i) ==
    IF i + 1 > Len(raw) THEN <<>>
    ELSE <<256 * raw[i] + raw[i + 1]>> \o WideBE(raw, i + 2)

IsHighSurrogate(u) == u >= 55296 /\ u <= 56319
IsLowSurrogate(u) == u >= 56320 /\ u <= 57343

\* The UTF-8 bytes of one code point.
Utf8OfCodePoint(c) ==
    IF c < 128 THEN <<c>>
    ELSE IF c < 2048 THEN <<192 + (c \div 64), 128 + (c % 64)>>
    ELSE IF c < 65536
         THEN <<224 + (c \div 4096), 128 + ((c \div 64) % 64), 128 + (c % 64)>>
    ELSE <<240 + (c \div 262144), 128 + ((c \div 4096) % 64),
           128 + ((c \div 64) % 64), 128 + (c % 64)>>

\* WideCharToMultiByte(CP_UTF8, 0, w, size, ...) (lines 117-121, 137-141):
\* a surrogate pair becomes one 4-byte sequence, an unpaired surrogate
\* becomes U+FFFD.
RECURSIVE WideCharToMultiByte(_)
WideCharToMultiByte(w) ==
    IF w = <<>> THEN <<>>
    ELSE LET u == w[1]
         IN IF IsHighSurrogate(u) /\ Len(w) >= 2 /\ IsLowSurrogate(w[2])
            THEN Utf8OfCodePoint(65536 + (u - 55296) * 1024 + (w[2] - 56320))
                 \o WideCharToMultiByte(Drop(w, 2))
            ELSE IF IsHighSurrogate(u) \/ IsLowSurrogate(u)
            THEN <<239, 191, 189>> \o WideCharToMultiByte(Drop(w, 1))
            ELSE Utf8OfCodePoint(u) \o WideCharToMultiByte(Drop(w, 1))

\* std::getline(file, rest, '\0') (line 151): the bytes before the first NUL.
RECURSIVE UntilNul(_, _)
UntilNul(s, p) ==
    IF p > Len(s) \/ s[p] = 0 THEN SubSeq(s, 1, p - 1) ELSE UntilNul(s, p + 1)

\* header[k] of lines 67-68: the k-th byte of the file, 0 past its end.
HeaderByte(f, k) == IF k <= Len(f) THEN f[k] ELSE 0

\* Lines 105-156: [useStringParser, ss].
Sniff(f) ==
    IF HeaderByte(f, 1) = 255 /\ HeaderByte(f, 2) = 254
    THEN LET w == WideLE(f, 3)
         IN IF w # <<>>
            THEN [useStringParser |-> TRUE, ss |-> WideCharToMultiByte(w)]
            ELSE [useStringParser |-> FALSE, ss |-> <<>>]
    ELSE IF HeaderByte(f, 1) = 254 /\ HeaderByte(f, 2) = 255
    THEN LET w == WideBE(f, 3)
         IN IF w # <<>>
            THEN [useStringParser |-> TRUE, ss |-> WideCharToMultiByte(w)]
            ELSE [useStringParser |-> FALSE, ss |-> <<>>]
    ELSE IF HeaderByte(f, 1) = 239 /\ HeaderByte(f, 2) = 187
            /\ HeaderByte(f, 3) = 191
    THEN LET rest == UntilNul(f, 1)
         IN [useStringParser |-> TRUE,
             ss |-> IF Len(rest) >= 3 THEN Drop(rest, 3) ELSE rest]
    ELSE [useStringParser |-> FALSE, ss |-> <<>>]

---------------------------------------------------------------------------
(* Channel arithmetic (lines 206-218, 299-308, 384-398).                   *)

\* Whether v * 255 leaves the range of int.
Mul255Overflows(v) == v > IntMax \div 255 \/ v < -(IntMax \div 255)

\* v * 255 reduced modulo 2^32 into the range of int: what a build that
\* wraps on signed overflow computes.  Done in 16-bit limbs.
Mul255Wrapped(v) ==
    LET lo == v % 65536
        hi == (v \div 65536) % 65536
        plo == (lo * 255) % 65536
        carry == (lo * 255) \div 65536
        phi == (hi * 255 + carry) % 65536
    IN IF phi >= 32768 THEN (phi - 65536) * 65536 + plo
       ELSE phi * 65536 + plo

\* The behaviours of a signed overflow (undefined behaviour): the build
\* wraps modulo 2^32, or it traps.
OverflowChoices == {"wrap", "trap"}

\* a / b of C++ for b > 0: the quotient truncated toward zero.
TruncDiv(a, b) == IF a >= 0 THEN a \div b ELSE (a + b - 1) \div b

\* Lines 206-210, 299-303, 384-388 for one channel: [trap, val].
Rescale(v, maxVal, ub) ==
    IF maxVal # 255 /\ maxVal > 0
    THEN IF Mul255Overflows(v)
         THEN IF ub = "trap" THEN [trap |-> TRUE, val |-> 0]
              ELSE [trap |-> FALSE, val |-> TruncDiv(Mul255Wrapped(v), maxVal)]
         ELSE [trap |-> FALSE, val |-> TruncDiv(v * 255, maxVal)]
    ELSE [trap |-> FALSE, val |-> v]

\* std::min<int>(255, std::max<int>(0, v)) (lines 211-213, 390-392).
Clamp(v) == Min(255, Max(0, v))

\* static_cast<uint8_t>(v)
ToByte(v) == v % 256

\* The channels written in the order red, green, blue.
PackPixel_RGB(r, g, b) == <<ToByte(r), ToByte(g), ToByte(b), 0>>

\* The four bytes written through ptr (lines 214-218, 304-308, 394-398).
PackPixel(r, g, b) == <<ToByte(b), ToByte(g), ToByte(r), 0>>

\* img.pixels.resize(n): n zero-initialised pixels.
Resized(n) == [j \in 1..n |-> <<0, 0, 0, 0>>]

\* width * height > 100000000 in 64 bits, for width > 0 and height > 0.
TooLarge(w, h) == w > MaxPixelCount \div h

---------------------------------------------------------------------------
(* What a call of LoadPPM ends in.  status is "returned" (an Image came    *)
(* back), "exception" (a std::stoi exception left LoadPPM) or "trap" (the  *)
(* build trapped on a signed overflow); ret is the source line of the      *)
(* statement the call ended at.                                            *)

Returned(w, h, px, line) ==
    [status |-> "returned", width |-> w, height |-> h, pixels |-> px,
     ret |-> line]

Thrown(line) ==
    [status |-> "exception", width |-> 0, height |-> 0, pixels |-> <<>>,
     ret |-> line]

Trapped(line) ==
    [status |-> "trap", width |-> 0, height |-> 0, pixels |-> <<>>,
     ret |-> line]

\* A return that leaves the image as the loop has filled it.
ClearedImage_NotCleared(w, h, px, line) == Returned(w, h, px, line)

\* "img.pixels.clear(); img.width = img.height = 0; return img;" of the
\* three pixel loops (lines 201, 295, 365-367, 381).
ClearedImage(w, h, px, line) == Returned(0, 0, <<>>, line)

\* "return img;" with img as the header parser left it.
ImageAsIs(w, h, px, line) == Returned(w, h, px, line)

---------------------------------------------------------------------------
(* The BOM / string-parser path (lines 158-223).                           *)

\* A magic test that lets "P6" through as well.
MagicOkStr_AlsoP6(token) == token \in {TokP3, TokP6}

\* The magic test of line 176.
MagicOkStr(token) == token = TokP3

\* The pixel loop of lines 199-219, from pixel i (0-based) on.
RECURSIVE StrPixels(_, _, _, _, _, _, _, _, _)
StrPixels(ss, p, i, n, maxVal, w, h, px, ub) ==
    IF i = n THEN Returned(w, h, px, 222)
    ELSE
    LET t1 == nextTokenStr(ss, p)
        t2 == nextTokenStr(ss, t1.pos)
        t3 == nextTokenStr(ss, t2.pos)
    IN IF ~t1.ok \/ ~t2.ok \/ ~t3.ok THEN ClearedImage(w, h, px, 201)
       ELSE
       LET r == stoi(normalizeToken(t1.tok))
           g == stoi(normalizeToken(t2.tok))
           b == stoi(normalizeToken(t3.tok))
       IN IF ~r.ok THEN Thrown(203)
          ELSE IF ~g.ok THEN Thrown(204)
          ELSE IF ~b.ok THEN Thrown(205)
          ELSE
          LET r2 == Rescale(r.val, maxVal, ub)
              g2 == Rescale(g.val, maxVal, ub)
              b2 == Rescale(b.val, maxVal, ub)
          IN IF r2.trap THEN Trapped(207)
             ELSE IF g2.trap THEN Trapped(208)
             ELSE IF b2.trap THEN Trapped(209)
             ELSE StrPixels(ss, t3.pos, i + 1, n, maxVal, w, h,
                      [px EXCEPT ![i + 1] =
                          PackPixel(Clamp(r2.val), Clamp(g2.val), Clamp(b2.val))],
                      ub)

ParseStr(ss, ub) ==
    LET t0 == nextTokenStr(ss, 1)
        tw == nextTokenStr(ss, t0.pos)
        th == nextTokenStr(ss, tw.pos)
        tm == nextTokenStr(ss, th.pos)
        width == stoi(normalizeToken(tw.tok))
        height == stoi(normalizeToken(th.tok))
        maxVal == stoi(normalizeToken(tm.tok))
    IN IF ~t0.ok THEN Returned(0, 0, <<>>, 174)
       ELSE IF ~MagicOkStr(normalizeToken(t0.tok)) THEN Returned(0, 0, <<>>, 176)
       ELSE IF ~tw.ok THEN Returned(0, 0, <<>>, 179)
       ELSE IF ~th.ok THEN Returned(0, 0, <<>>, 180)
       ELSE IF ~tm.ok THEN Returned(0, 0, <<>>, 181)
       ELSE IF ~width.ok THEN Returned(0, 0, <<>>, 190)
       ELSE IF ~height.ok THEN Returned(width.val, 0, <<>>, 190)
       ELSE IF ~maxVal.ok THEN ImageAsIs(width.val, height.val, <<>>, 192)
       ELSE IF width.val <= 0 \/ height.val <= 0
            THEN ImageAsIs(width.val, height.val, <<>>, 194)
       ELSE IF TooLarge(width.val, height.val)
            THEN ImageAsIs(width.val, height.val, <<>>, 196)
       ELSE StrPixels(ss, tm.pos, 0, width.val * height.val, maxVal.val,
                      width.val, height.val,
                      Resized(width.val * height.val), ub)

---------------------------------------------------------------------------
(* The raw-stream P6 path (lines 265-313).                                 *)

\* The pixel loop of lines 292-309: three raw bytes a pixel, no clamp
\* before the narrowing.
RECURSIVE P6Pixels(_, _, _, _, _, _, _, _, _)
P6Pixels(f, p, i, n, maxVal, w, h, px, ub) ==
    IF i = n THEN Returned(w, h, px, 312)
    ELSE IF p + 2 > Len(f) THEN ClearedImage(w, h, px, 295)
    ELSE
    LET r2 == Rescale(f[p], maxVal, ub)
        g2 == Rescale(f[p + 1], maxVal, ub)
        b2 == Rescale(f[p + 2], maxVal, ub)
    IN IF r2.trap THEN Trapped(300)
       ELSE IF g2.trap THEN Trapped(301)
       ELSE IF b2.trap THEN Trapped(302)
       ELSE P6Pixels(f, p + 3, i + 1, n, maxVal, w, h,
                [px EXCEPT ![i + 1] = PackPixel(r2.val, g2.val, b2.val)], ub)

\* A reader that skips every whitespace byte in front of the pixel data.
AfterSeparator_SkipsWhitespace(f, p) == SkipSpaces(f, p + 1)

\* int sep = file.get() (line 287): the position behind the one byte read.
AfterSeparator(f, p) == p + 1

ParseP6(f, p0, ub) ==
    LET tw == nextToken(f, p0)
        th == nextToken(f, tw.pos)
        tm == nextToken(f, th.pos)
        width == stoi(normalizeToken(tw.tok))
        height == stoi(normalizeToken(th.tok))
        maxVal == stoi(normalizeToken(tm.tok))
    IN IF ~tw.ok \/ ~th.ok \/ ~tm.ok THEN Returned(0, 0, <<>>, 270)
       ELSE IF ~width.ok THEN Returned(0, 0, <<>>, 278)
       ELSE IF ~height.ok THEN Returned(width.val, 0, <<>>, 278)
       ELSE IF ~maxVal.ok THEN ImageAsIs(width.val, height.val, <<>>, 281)
       ELSE IF width.val <= 0 \/ height.val <= 0
            THEN ImageAsIs(width.val, height.val, <<>>, 282)
       ELSE IF TooLarge(width.val, height.val)
            THEN ImageAsIs(width.val, height.val, <<>>, 284)
       \* int sep = file.get();
       ELSE IF tm.pos > Len(f)
            THEN ImageAsIs(width.val, height.val, <<>>, 288)
       ELSE P6Pixels(f, AfterSeparator(f, tm.pos), 0,
                     width.val * height.val, maxVal.val,
                     width.val, height.val,
                     Resized(width.val * height.val), ub)

---------------------------------------------------------------------------
(* The raw-stream P3 path (lines 315-402).                                 *)

\* The pixel loop of lines 363-399: the three tokens go to std::stoi as
\* read, and a std::stoi exception is caught (lines 373-382).
RECURSIVE RawPixels(_, _, _, _, _, _, _, _, _)
RawPixels(f, p, i, n, maxVal, w, h, px, ub) ==
    IF i = n THEN Returned(w, h, px, 402)
    ELSE
    LET t1 == nextToken(f, p)
        t2 == nextToken(f, t1.pos)
        t3 == nextToken(f, t2.pos)
    IN IF ~t1.ok THEN ClearedImage(w, h, px, 365)
       ELSE IF ~t2.ok THEN ClearedImage(w, h, px, 366)
       ELSE IF ~t3.ok THEN ClearedImage(w, h, px, 367)
       ELSE
       LET r == stoi(t1.tok)
           g == stoi(t2.tok)
           b == stoi(t3.tok)
       IN IF ~r.ok \/ ~g.ok \/ ~b.ok THEN ClearedImage(w, h, px, 381)
          ELSE
          LET r2 == Rescale(r.val, maxVal, ub)
              g2 == Rescale(g.val, maxVal, ub)
              b2 == Rescale(b.val, maxVal, ub)
          IN IF r2.trap THEN Trapped(385)
             ELSE IF g2.trap THEN Trapped(386)
             ELSE IF b2.trap THEN Trapped(387)
             ELSE RawPixels(f, t3.pos, i + 1, n, maxVal, w, h,
                      [px EXCEPT ![i + 1] =
                          PackPixel(Clamp(r2.val), Clamp(g2.val), Clamp(b2.val))],
                      ub)

ParseP3(f, p0, ub) ==
    LET tw == nextToken(f, p0)
        th == nextToken(f, tw.pos)
        tm == nextToken(f, th.pos)
        width == stoi(normalizeToken(tw.tok))
        height == stoi(normalizeToken(th.tok))
        maxVal2 == stoi(normalizeToken(tm.tok))
    IN IF ~tw.ok THEN Returned(0, 0, <<>>, 322)
       ELSE IF ~th.ok THEN Returned(0, 0, <<>>, 323)
       ELSE IF ~tm.ok THEN Returned(0, 0, <<>>, 324)
       ELSE IF ~width.ok THEN Returned(0, 0, <<>>, 339)
       ELSE IF ~height.ok THEN Returned(width.val, 0, <<>>, 339)
       ELSE IF ~maxVal2.ok THEN ImageAsIs(width.val, height.val, <<>>, 344)
       \* img.width = img.height = 0; return img;
       ELSE IF width.val <= 0 \/ height.val <= 0
            THEN Returned(0, 0, <<>>, 350)
       ELSE IF TooLarge(width.val, height.val)
            THEN Returned(0, 0, <<>>, 357)
       ELSE RawPixels(f, tm.pos, 0, width.val * height.val, maxVal2.val,
                      width.val, height.val,
                      Resized(width.val * height.val), ub)

---------------------------------------------------------------------------
(* LoadPPM (lines 57-403) of an open file with bytes f.  ub is the way the *)
(* build behaves on a signed overflow.                                     *)

\* Lines 259-263: a UTF-8 BOM still in front of the magic is cut off.
StripBom(token) ==
    IF Len(token) >= 3 /\ token[1] = 239 /\ token[2] = 187 /\ token[3] = 191
    THEN Drop(token, 3)
    ELSE token

\* Lines 250-318: the raw-stream parser.
ParseRaw(f, ub) ==
    LET t0 == nextToken(f, 1)
        token == StripBom(normalizeToken(t0.tok))
    IN IF ~t0.ok THEN Returned(0, 0, <<>>, 254)
       ELSE IF token = TokP6 THEN ParseP6(f, t0.pos, ub)
       ELSE IF token # TokP3 THEN Returned(0, 0, <<>>, 317)
       ELSE ParseP3(f, t0.pos, ub)

LoadPPM(f, ub) ==
    LET sn == Sniff(f)
    IN IF sn.useStringParser THEN ParseStr(sn.ss, ub) ELSE ParseRaw(f, ub)

---------------------------------------------------------------------------
(* The files LoadPPM is applied to.  A document is a PPM file described by *)
(* its parts: the text wrapper (enc), the header tokens, the body values,  *)
(* one optional '#' comment and, for a binary body, the separator bytes.   *)
(* Its text is a sequence of code points; RenderFile writes the bytes.     *)

\* The largest pixel count of a document whose body is written out in full.
MaxPixels == 2

Encodings == {"none", "utf8", "utf16le", "utf16be"}

\* "P5", and "P3" / "P6" behind a no-break space (U+00A0).
TokP5 == <<80, 53>>
NbspP3 == <<160>> \o TokP3
NbspP6 == <<160>> \o TokP6
Magics == {TokP3, TokP6, TokP5, NbspP3, NbspP6}

\* Width and height pairs: decodable, not positive, and over the cap.
SmallDims == {wh \in (1..(MaxPixels + 1)) \X (1..(MaxPixels + 1)) :
                 wh[1] * wh[2] <= MaxPixels}
BadDims == {<<0, 1>>, <<1, 0>>, <<-1, 1>>, <<2, -3>>}
HugeDims == {<<20000, 20000>>, <<300000000, 1>>, <<10001, 10000>>}

MaxVals == {255, 100, 10000000, 0}

\* Channel triples a text body cycles through, and those of a binary body.
TextTriples == << <<255, 0, 0>>, <<0, 255, 0>>, <<50, 50, 50>>,
                  <<300, -1, 7>>, <<10000000, 100, 8421505>> >>
ByteTriples == << <<255, 0, 0>>, <<50, 50, 50>>, <<200, 100, 7>>,
                  <<0, 128, 255>> >>

\* The first n channel values of the body that starts at triple pat.
BodyOf(triples, pat, n) ==
    [j \in 1..n |->
        triples[((pat - 1 + (j - 1) \div 3) % Len(triples)) + 1][((j - 1) % 3) + 1]]

\* Tokens std::stoi rejects: "x", "9999999999", and a lone no-break space.
JunkTokens == {<<120>>, <<57, 57, 57, 57, 57, 57, 57, 57, 57, 57>>, <<160>>}

\* The text of the comment: "#a 9" and a line feed.
CommentText == <<35, 97, 32, 57, 10>>

\* The decimal digits of n >= 0, and the decimal text of an integer.
RECURSIVE Digits(_)
Digits(n) == IF n < 10 THEN <<48 + n>> ELSE Digits(n \div 10) \o <<48 + (n % 10)>>

ToDec(n) == IF n < 0 THEN <<45>> \o Digits(-n) ELSE Digits(n)

BaseDoc ==
    [enc |-> "none", magic |-> TokP3, binary |-> FALSE, nhdr |-> 4,
     w |-> 1, h |-> 1, m |-> 255, hjunk |-> 0,
     body |-> BodyOf(TextTriples, 1, 3), bjunk |-> 0, jtok |-> <<120>>,
     cpos |-> 0, cglued |-> FALSE, sep |-> <<10>>, tail |-> <<10>>]

IsBinaryMagic(mg) == mg \in {TokP6, NbspP6}

\* A document with the given wrapper, magic, header and n body values.
MkDoc(enc, mg, wh, m, pat, n) ==
    [BaseDoc EXCEPT !.enc = enc, !.magic = mg, !.binary = IsBinaryMagic(mg),
                    !.w = wh[1], !.h = wh[2], !.m = m,
                    !.body = BodyOf(IF IsBinaryMagic(mg) THEN ByteTriples
                                    ELSE TextTriples, pat, n)]

\* Headers: every wrapper and magic, every kind of dimension, a header
\* field that is no number, and a header cut short.
HeaderDocs ==
    { [MkDoc(enc, mg, wh, m, 1, IF wh \in SmallDims THEN 3 * wh[1] * wh[2] ELSE 3)
          EXCEPT !.hjunk = hj] :
        enc \in Encodings, mg \in Magics,
        wh \in SmallDims \cup BadDims \cup HugeDims,
        m \in {255, 100}, hj \in {0, 2, 3, 4} }
    \cup
    { [MkDoc(enc, mg, <<1, 1>>, 255, 1, 0) EXCEPT !.nhdr = k] :
        enc \in Encodings, mg \in Magics, k \in 0..3 }

\* Bodies: every decodable size, every maxValue, complete and cut short.
BodyDocs ==
    { MkDoc(enc, mg, wh, m, pat, n) :
        enc \in Encodings, mg \in {TokP3, TokP6}, wh \in SmallDims,
        m \in MaxVals, pat \in 1..Len(TextTriples), n \in 0..(3 * MaxPixels) }

\* What stands between the maxValue token and a binary body: nothing, CR LF,
\* a space, a '#', and two line feeds.
Separators == {<<>>, <<13, 10>>, <<32>>, <<35>>, <<10, 10>>}

\* Binary bodies behind each of these.
SeparatorDocs ==
    { [MkDoc("none", TokP6, wh, m, pat, n) EXCEPT !.sep = sp] :
        wh \in SmallDims, m \in {255, 100}, pat \in 1..Len(ByteTriples),
        n \in 0..(3 * MaxPixels), sp \in Separators }

\* Text bodies with one token std::stoi rejects.
JunkDocs ==
    { [MkDoc(enc, TokP3, wh, 255, 1, 3 * MaxPixels)
          EXCEPT !.bjunk = k, !.jtok = jt] :
        enc \in Encodings, wh \in SmallDims,
        k \in 1..(3 * MaxPixels), jt \in JunkTokens }

\* What normalizeToken strips from the front of a token, as code points:
\* a no-break space (C2 A0 in UTF-8), a byte <= 0x20 that is no whitespace,
\* and U+FEFF (EF BB BF in UTF-8).
Prefixes == {<<160>>, <<1>>, <<65279>>}

\* Text bodies with one channel value written behind such a prefix.
PrefixDocs ==
    { [MkDoc(enc, TokP3, wh, 255, pat, 3 * MaxPixels)
          EXCEPT !.bjunk = k,
                 !.jtok = pf \o ToDec(BodyOf(TextTriples, pat, 3 * MaxPixels)[k])] :
        enc \in Encodings, wh \in SmallDims, pat \in {1, 3},
        k \in 1..(3 * MaxPixels), pf \in Prefixes }

\* One comment after any token of a one-pixel document, after whitespace
\* or directly behind the token; with and without a final line feed.
CommentDocs ==
    { [MkDoc(enc, mg, <<1, 1>>, m, pat, 3)
          EXCEPT !.cpos = k, !.cglued = gl, !.tail = tl] :
        enc \in Encodings, mg \in {TokP3, TokP6}, m \in {255, 100},
        pat \in 1..2, k \in 0..7, gl \in BOOLEAN, tl \in {<<>>, <<10>>} }

Docs ==
    HeaderDocs \cup BodyDocs \cup SeparatorDocs \cup JunkDocs \cup PrefixDocs
        \cup CommentDocs

\* The tokens of the document's text, in order.
FieldTok(d, k) ==
    IF d.hjunk = k THEN <<120>>
    ELSE IF k = 2 THEN ToDec(d.w)
    ELSE IF k = 3 THEN ToDec(d.h)
    ELSE ToDec(d.m)

HdrToks(d) ==
    SubSeq(<<d.magic, FieldTok(d, 2), FieldTok(d, 3), FieldTok(d, 4)>>, 1, d.nhdr)

BodyToks(d) ==
    IF d.binary \/ d.nhdr < 4 THEN <<>>
    ELSE [j \in 1..Len(d.body) |->
             IF j = d.bjunk THEN d.jtok ELSE ToDec(d.body[j])]

DocToks(d) == HdrToks(d) \o BodyToks(d)

\* What follows token k of n in the text.
AfterTok(d, k, n) ==
    IF d.cpos = k THEN (IF d.cglued THEN <<>> ELSE <<32>>) \o CommentText
    ELSE IF k = n THEN (IF d.binary THEN <<>> ELSE d.tail)
    ELSE IF k \in {1, 4} THEN <<10>>
    ELSE <<32>>

RECURSIVE JoinToks(_, _, _)
JoinToks(d, ts, k) ==
    IF k > Len(ts) THEN <<>>
    ELSE ts[k] \o AfterTok(d, k, Len(ts)) \o JoinToks(d, ts, k + 1)

\* The code points of the text part, and the bytes of the binary part.
DocText(d) == JoinToks(d, DocToks(d), 1)

DocBinary(d) == IF d.binary /\ d.nhdr = 4 THEN d.sep \o d.body ELSE <<>>

RECURSIVE Utf8Of(_)
Utf8Of(t) == IF t = <<>> THEN <<>> ELSE Utf8OfCodePoint(t[1]) \o Utf8Of(Tail(t))

RECURSIVE Utf16LE(_)
Utf16LE(t) ==
    IF t = <<>> THEN <<>> ELSE <<t[1] % 256, t[1] \div 256>> \o Utf16LE(Tail(t))

RECURSIVE Utf16BE(_)
Utf16BE(t) ==
    IF t = <<>> THEN <<>> ELSE <<t[1] \div 256, t[1] % 256>> \o Utf16BE(Tail(t))

\* The bytes of the file the document is saved as.
RenderFile(d) ==
    IF d.enc = "utf16le" THEN <<255, 254>> \o Utf16LE(DocText(d) \o DocBinary(d))
    ELSE IF d.enc = "utf16be"
         THEN <<254, 255>> \o Utf16BE(DocText(d) \o DocBinary(d))
    ELSE IF d.enc = "utf8"
         THEN <<239, 187, 191>> \o Utf8Of(DocText(d)) \o DocBinary(d)
    ELSE Utf8Of(DocText(d)) \o DocBinary(d)

---------------------------------------------------------------------------
(* The state machine: a document is chosen and saved; then LoadPPM is      *)
(* applied to the file (Load), to the file and to the same document saved  *)
(* as plain 8-bit text (LoadPair), or the two token sources are run over   *)
(* the same text (Tokenize).                                               *)

NoResult ==
    [status |-> "none", width |-> 0, height |-> 0, pixels |-> <<>>, ret |-> 0]

NoTokens == [str |-> <<>>, raw |-> <<>>]

\* static Image g_image (lines 22-29): width = 0, height = 0, no pixels.
\* Of the pixel vector the shell's state keeps size().
NoImage == [width |-> 0, height |-> 0, size |-> 0]

\* Every token nextTokenStr returns from position p on.
RECURSIVE TokensStr(_, _)
TokensStr(s, p) ==
    LET t == nextTokenStr(s, p)
    IN IF t.ok THEN <<t.tok>> \o TokensStr(s, t.pos) ELSE <<>>

\* Every token nextToken returns from position p on.
RECURSIVE TokensRaw(_, _)
TokensRaw(s, p) ==
    LET t == nextToken(s, p)
    IN IF t.ok THEN <<t.tok>> \o TokensRaw(s, t.pos) ELSE <<>>

Init ==
    /\ doc \in Docs
    /\ file = RenderFile(doc)
    /\ pc = "start"
    /\ res = NoResult
    /\ alt = NoResult
    /\ toks = NoTokens
    /\ g_image = NoImage
    /\ screen = "none"

Load ==
    /\ pc = "start"
    /\ \E ub \in OverflowChoices : res' = LoadPPM(file, ub)
    /\ pc' = "loaded"
    /\ UNCHANGED <<doc, file, alt, toks, g_image, screen>>

LoadPair ==
    /\ pc = "start"
    /\ doc.enc = "utf16le"
    /\ \E ub \in OverflowChoices :
          /\ res' = LoadPPM(file, ub)
          /\ alt' = LoadPPM(RenderFile([doc EXCEPT !.enc = "none"]), ub)
    /\ pc' = "paired"
    /\ UNCHANGED <<doc, file, toks, g_image, screen>>

Tokenize ==
    /\ pc = "start"
    /\ doc.enc = "none"
    /\ ~doc.binary
    /\ toks' = [str |-> TokensStr(file, 1), raw |-> TokensRaw(file, 1)]
    /\ pc' = "tokenized"
    /\ UNCHANGED <<doc, file, res, alt, g_image, screen>>

Next == Load \/ LoadPair \/ Tokenize

Spec == Init /\ [][Next]_vars

---------------------------------------------------------------------------
(* The display shell: main (lines 478-551) and WindowProc (lines 407-475). *)
(* pc is "main" before main's first statement, "running" in the message    *)
(* loop and "terminated" once an exception or a trap has left LoadPPM;     *)
(* doc, file and res are the file last handed to LoadPPM and what LoadPPM  *)
(* made of it.  The size and the position of the window are left out.      *)

\* The placeholder of lines 485-503.
GradientWidth == 800
GradientHeight == 600

\* A path std::ifstream cannot open (lines 61-64).
NoFile == [BaseDoc EXCEPT !.enc = "missing"]

\* The files the shell is given: P3 and P6 images LoadPPM decodes, and one
\* file for each way LoadPPM gives up.
ShellDocs ==
    { MkDoc("none", TokP3, <<1, 1>>, 255, 1, 3),
      MkDoc("none", TokP6, <<2, 1>>, 255, 1, 6),
      MkDoc("utf8", TokP3, <<1, 2>>, 100, 2, 6),
      MkDoc("utf16be", TokP3, <<2, 1>>, 255, 3, 6),
      MkDoc("none", TokP6, <<1, 1>>, 100, 2, 3),
      MkDoc("none", TokP5, <<1, 1>>, 255, 1, 3),
      MkDoc("none", TokP6, <<-1, 1>>, 255, 1, 3),
      MkDoc("none", TokP3, <<1, 1>>, 255, 1, 2),
      MkDoc("none", TokP6, <<2, 1>>, 255, 1, 4),
      MkDoc("none", TokP6, <<10001, 10000>>, 255, 1, 3),
      MkDoc("utf16le", TokP3, <<20000, 20000>>, 255, 1, 3),
      MkDoc("none", TokP3, <<300000000, 1>>, 255, 1, 3),
      [MkDoc("none", TokP6, <<1, 1>>, 255, 1, 0) EXCEPT !.sep = <<>>],
      [MkDoc("none", TokP3, <<2, 1>>, 255, 1, 6) EXCEPT !.hjunk = 4],
      [MkDoc("utf8", TokP3, <<1, 1>>, 255, 1, 3) EXCEPT !.hjunk = 4],
      [MkDoc("utf8", TokP3, <<1, 1>>, 255, 1, 3) EXCEPT !.bjunk = 1],
      MkDoc("none", TokP3, <<1, 1>>, 10000000, 5, 3) }

\* LoadPPM(path): a file that cannot be opened gives the default Image.
LoadPath(d, ub) ==
    IF d = NoFile THEN Returned(0, 0, <<>>, 63) ELSE LoadPPM(RenderFile(d), ub)

\* The Image a LoadPPM call handed back, as the shell holds it.
ImageOf(r) == [width |-> r.width, height |-> r.height, size |-> Len(r.pixels)]

\* Lines 485-503: the placeholder replaces an image without a positive
\* width and height.
WithGradient(img) ==
    IF img.width <= 0 \/ img.height <= 0
    THEN [width |-> GradientWidth, height |-> GradientHeight,
          size |-> GradientWidth * GradientHeight]
    ELSE img

\* The acceptance test of line 428.
Accepts(img) == img.width > 0 /\ img.height > 0

\* WM_PAINT (lines 444-472): what the handler draws of an image.
Painted(img) == IF img.width > 0 /\ img.size # 0 THEN "image" ELSE "nothing"

ShellInit ==
    /\ doc = NoFile
    /\ file = <<>>
    /\ pc = "main"
    /\ res = NoResult
    /\ alt = NoResult
    /\ toks = NoTokens
    /\ g_image = NoImage
    /\ screen = "none"

\* main without a file argument: the placeholder, then the message loop.
MainNoArg ==
    /\ pc = "main"
    /\ g_image' = WithGradient(g_image)
    /\ pc' = "running"
    /\ UNCHANGED <<doc, file, res, alt, toks, screen>>

\* main with a file argument: g_image = LoadPPM(argv[1]), the placeholder
\* if that left no positive width and height, then the message loop.
MainLoad ==
    /\ pc = "main"
    /\ \E d \in ShellDocs \cup {NoFile}, ub \in OverflowChoices :
          LET img == LoadPath(d, ub)
          IN /\ doc' = d
             /\ file' = IF d = NoFile THEN <<>> ELSE RenderFile(d)
             /\ res' = img
             /\ IF img.status = "returned"
                THEN g_image' = WithGradient(ImageOf(img)) /\ pc' = "running"
                ELSE g_image' = g_image /\ pc' = "terminated"
    /\ UNCHANGED <<alt, toks, screen>>

\* File->Open with a file chosen (lines 425-438): an accepted image
\* replaces g_image and UpdateWindow has it painted at once.
Open ==
    /\ pc = "running"
    /\ \E d \in ShellDocs, ub \in OverflowChoices :
          LET img == LoadPath(d, ub)
          IN /\ doc' = d
             /\ file' = RenderFile(d)
             /\ res' = img
             /\ IF img.status # "returned"
                THEN /\ pc' = "terminated"
                     /\ UNCHANGED <<g_image, screen>>
                ELSE /\ pc' = pc
                     /\ IF Accepts(ImageOf(img))
                        THEN /\ g_image' = ImageOf(img)
                             /\ screen' = Painted(ImageOf(img))
                        ELSE UNCHANGED <<g_image, screen>>
    /\ UNCHANGED <<alt, toks>>

\* File->Open with the dialog cancelled: GetOpenFileNameW returns FALSE.
OpenCancelled ==
    /\ pc = "running"
    /\ UNCHANGED vars

\* WM_PAINT.
Paint ==
    /\ pc = "running"
    /\ screen' = Painted(g_image)
    /\ UNCHANGED <<doc, file, pc, res, alt, toks, g_image>>

ShellNext == MainNoArg \/ MainLoad \/ Open \/ OpenCancelled \/ Paint

ShellSpec == ShellInit /\ [][ShellNext]_vars

---------------------------------------------------------------------------
(* What the claims say of a document and of a result.                      *)

Loaded == pc = "loaded"

\* The empty/zero Image: no pixels, width = height = 0.
EmptyZero(r) ==
    r.status = "returned" /\ r.pixels = <<>> /\ r.width = 0 /\ r.height = 0

\* A populated Image: positive dimensions and width*height pixels.
Populated(r) ==
    /\ r.status = "returned"
    /\ r.width > 0
    /\ r.height > 0
    /\ Len(r.pixels) = r.width * r.height

\* The magic the document's first token is after normalization.
DocIsP3(d) == d.nhdr = 4 /\ d.magic \in {TokP3, NbspP3}
DocIsP6(d) == d.nhdr = 4 /\ d.magic \in {TokP6, NbspP6}

\* No comment sits directly behind a token (token and '#' with nothing
\* between them).
NoGluedComment(d) == d.cpos = 0 \/ ~d.cglued

\* The header declares numbers, and a size LoadPPM decodes.
NumericHeader(d) == d.nhdr = 4 /\ d.hjunk = 0
DecodableSize(d) ==
    /\ NumericHeader(d)
    /\ d.w > 0
    /\ d.h > 0
    /\ d.w <= MaxPixelCount \div d.h

\* The header of the document declares more than 100,000,000 pixels.
DeclaresTooLarge(d) ==
    /\ NumericHeader(d)
    /\ d.w > 0
    /\ d.h > 0
    /\ d.w > MaxPixelCount \div d.h
    /\ d.cpos = 0

---------------------------------------------------------------------------
(* C1                                                                      *)

\* C1: whatever the file, an Image LoadPPM returns is either empty with
\* width = height = 0, or has positive dimensions and exactly width*height
\* pixels.
C1_ImageShape ==
    (Loaded /\ res.status = "returned") => (EmptyZero(res) \/ Populated(res))

---------------------------------------------------------------------------
(* C2                                                                      *)

\* C2: a header that declares more than 100,000,000 pixels makes LoadPPM
\* return the empty/zero Image on every path.
C2_TooLargeIsEmptyZero ==
    (Loaded /\ DeclaresTooLarge(doc)) => EmptyZero(res)

---------------------------------------------------------------------------
(* C3                                                                      *)

\* The first token the path's token source returns for the file.
FirstToken(f) ==
    IF Sniff(f).useStringParser THEN nextTokenStr(Sniff(f).ss, 1)
    ELSE nextToken(f, 1)

\* LoadPPM left through one of its two "not a PPM magic" returns.
RejectedForMagic(r) == r.status = "returned" /\ r.ret \in {176, 317}

\* The document's magic is written first and no comment is glued to it.
MagicWritten(d) == d.nhdr >= 1 /\ ~(d.cglued /\ d.cpos = 1)

\* C3 as stated: on every encoding path the stream is rejected for its
\* magic exactly when the normalized first token is neither "P3" nor "P6",
\* and a rejected stream yields the empty/zero Image.
C3_MagicP3OrP6OnEveryPath ==
    (Loaded /\ FirstToken(file).ok) =>
        /\ RejectedForMagic(res) <=>
              normalizeToken(FirstToken(file).tok) \notin {TokP3, TokP6}
        /\ RejectedForMagic(res) => EmptyZero(res)

\* C3 as amended: without a BOM the stream is rejected for its magic
\* exactly when the normalized first token is neither "P3" nor "P6"; behind
\* a BOM (UTF-8, UTF-16LE, UTF-16BE) it is rejected exactly when that token
\* is not "P3", so "P6" behind a BOM is rejected; a rejected stream yields
\* the empty/zero Image.  Stated of the token the token source returns, and
\* of the magic the document was written with.
C3_MagicPerPath ==
    /\ (Loaded /\ FirstToken(file).ok) =>
          /\ RejectedForMagic(res) <=>
                IF Sniff(file).useStringParser
                THEN normalizeToken(FirstToken(file).tok) # TokP3
                ELSE normalizeToken(FirstToken(file).tok) \notin {TokP3, TokP6}
          /\ RejectedForMagic(res) => EmptyZero(res)
    /\ (Loaded /\ MagicWritten(doc)) =>
          (RejectedForMagic(res) <=>
              IF doc.enc = "none"
              THEN doc.magic \notin {TokP3, NbspP3, TokP6, NbspP6}
              ELSE doc.magic \notin {TokP3, NbspP3})

\* A UTF-16LE file whose magic is "P6" has been rejected for its magic.
C3_Witness ==
    /\ Loaded
    /\ doc.enc = "utf16le"
    /\ doc.magic = TokP6
    /\ FirstToken(file).ok
    /\ normalizeToken(FirstToken(file).tok) = TokP6
    /\ res.ret = 176
    /\ EmptyZero(res)

---------------------------------------------------------------------------
(* Documents LoadPPM decodes, and the bytes the claims expect of them.     *)

\* The number of channel values the header asks for.
Needed(d) == 3 * d.w * d.h

\* A P3 document with a decodable header and every channel value written
\* as a decimal integer.
ValidP3(d) ==
    /\ DocIsP3(d)
    /\ DecodableSize(d)
    /\ NoGluedComment(d)
    /\ Len(d.body) >= Needed(d)
    /\ (d.bjunk = 0 \/ d.bjunk > Needed(d))

\* A P6 file with a decodable header, one separator byte and every byte of
\* the body.
ValidP6(d) ==
    /\ DocIsP6(d)
    /\ d.enc = "none"
    /\ DecodableSize(d)
    /\ d.cpos = 0
    /\ Len(d.sep) = 1
    /\ Len(d.body) >= Needed(d)

\* No channel value of the body leaves the range of int when it is
\* multiplied by 255.
NoOverflow(d) ==
    \/ d.m = 255
    \/ d.m <= 0
    \/ \A j \in 1..Len(d.body) :
          d.body[j] <= IntMax \div 255 /\ d.body[j] >= -(IntMax \div 255)

\* Eight steps of binary long division: <<floor(256 v / m), 256 v mod m>>
\* for 0 <= v < m, without a product.
RECURSIVE LongDiv(_, _, _, _)
LongDiv(q, r, m, k) ==
    IF k = 0 THEN <<q, r>>
    ELSE IF r >= m - r THEN LongDiv(2 * q + 1, r - (m - r), m, k - 1)
    ELSE LongDiv(2 * q, r + r, m, k - 1)

\* floor(255 v / m) for 0 <= v < m, in exact arithmetic.
Floor255(v, m) ==
    LET qr == LongDiv(0, v, m, 8)
    IN IF qr[2] >= v THEN qr[1] ELSE qr[1] - 1

\* clamp(v', 0, 255) with v' = trunc(v * 255 / maxValue) when maxValue is
\* positive and not 255, v' = v otherwise, in exact arithmetic.
ExpectedChannel(v, m) ==
    IF v <= 0 THEN 0
    ELSE IF m # 255 /\ m > 0
         THEN IF v >= m THEN 255 ELSE Floor255(v, m)
    ELSE IF v > 255 THEN 255
    ELSE v

\* Pixel i (1-based) as the claims expect it: [Blue, Green, Red, 0].
ExpectedPixel(d, i) ==
    << ExpectedChannel(d.body[3 * i], d.m),
       ExpectedChannel(d.body[3 * i - 1], d.m),
       ExpectedChannel(d.body[3 * i - 2], d.m),
       0 >>

\* The result is the document's image, every pixel as expected.
DecodedAsExpected(d, r) ==
    /\ Populated(r)
    /\ r.width = d.w
    /\ r.height = d.h
    /\ \A i \in 1..(d.w * d.h) : r.pixels[i] = ExpectedPixel(d, i)

---------------------------------------------------------------------------
(* C4                                                                      *)

\* C4: for a P3 and for a P6 body alike, every stored channel byte is
\* clamp(v', 0, 255), v' = (v * 255) / maxValue when maxValue is positive
\* and not 255, v' = v otherwise; a P6 byte above a maxValue < 255 is
\* stored as 255.  (Stated where v * 255 fits an int; C10 is the rest.)
C4_RescaleAndClamp ==
    (Loaded /\ (ValidP3(doc) \/ ValidP6(doc)) /\ NoOverflow(doc))
        => DecodedAsExpected(doc, res)

---------------------------------------------------------------------------
(* C5                                                                      *)

\* C5: for a valid P3 input with maxValue 255, pixel i holds
\* [clamp(b_i), clamp(g_i), clamp(r_i), 0], r_i, g_i, b_i being the body
\* integers 3i, 3i+1, 3i+2 (0-based); the P6 loop writes the same order.
\* A comment glued to a token is left to C9.
C5_P3ByteOrder ==
    (Loaded /\ doc.m = 255 /\ (ValidP3(doc) \/ ValidP6(doc)))
        => DecodedAsExpected(doc, res)

\* A UTF-16BE P3 document of two pixels with maxValue 255, one value above
\* 255 and one below 0, has been decoded by the string parser.
C5_Witness ==
    /\ Loaded
    /\ doc.m = 255
    /\ ValidP3(doc)
    /\ doc.enc = "utf16be"
    /\ doc.w * doc.h = 2
    /\ \E j \in 1..Needed(doc) : doc.body[j] > 255
    /\ \E j \in 1..Needed(doc) : doc.body[j] < 0
    /\ res.ret = 222
    /\ Len(res.pixels) = 2

---------------------------------------------------------------------------
(* C6                                                                      *)

\* The pixel data ends before the last channel value: a P3 body short of a
\* token, or a P6 body (behind its separator byte) short of a byte.
TruncatedInLoop(d) ==
    /\ DecodableSize(d)
    /\ NoOverflow(d)
    /\ \/ /\ DocIsP3(d)
          /\ NoGluedComment(d)
          /\ d.bjunk = 0
          /\ Len(d.body) < Needed(d)
       \/ /\ DocIsP6(d)
          /\ d.enc = "none"
          /\ d.cpos = 0
          /\ Len(d.sep) >= 1
          /\ Len(d.sep) - 1 + Len(d.body) < Needed(d)

\* C6: when the stream ends inside the pixel data (P6: fewer than 3 bytes
\* are left for some pixel; P3: one of a pixel's three tokens is missing),
\* LoadPPM returns the empty/zero Image, however many pixels it had
\* decoded.  (A P6 stream that ends where the separator byte should be
\* never reaches the pixel data: that return is C1's and C12's.)
C6_TruncatedIsEmptyZero ==
    (Loaded /\ TruncatedInLoop(doc)) => EmptyZero(res)

\* A two-pixel P6 file that ends inside its second pixel has been loaded:
\* the first pixel was decoded, then line 295 returned.
C6_Witness ==
    /\ Loaded
    /\ TruncatedInLoop(doc)
    /\ DocIsP6(doc)
    /\ doc.w * doc.h = 2
    /\ Len(doc.sep) = 1
    /\ Len(doc.body) \in 3..5
    /\ res.ret = 295
    /\ EmptyZero(res)

---------------------------------------------------------------------------
(* C7                                                                      *)

\* One of the channel tokens the decoder reads is no integer.
BadBodyToken(d) ==
    /\ DocIsP3(d)
    /\ DecodableSize(d)
    /\ NoGluedComment(d)
    /\ d.bjunk \in 1..Needed(d)
    /\ d.jtok \in JunkTokens
    /\ Len(d.body) >= d.bjunk

\* C7: no exception leaves LoadPPM, and a P3 body token that is not an
\* integer makes it return the empty/zero Image on either path.
C7_BadTokenIsEmptyZero ==
    Loaded => /\ res.status # "exception"
              /\ BadBodyToken(doc) => EmptyZero(res)

---------------------------------------------------------------------------
(* C8                                                                      *)

\* A valid P3 document: a decodable header, every channel value written,
\* and at most one comment, which may start anywhere, also directly behind
\* a token.
ValidP3Commented(d) ==
    /\ d.nhdr = 4
    /\ d.magic = TokP3
    /\ DecodableSize(d)
    /\ NoOverflow(d)
    /\ Len(d.body) >= Needed(d)
    /\ (d.bjunk = 0 \/ d.bjunk > Needed(d))

SameImage(a, b) ==
    /\ a.status = "returned"
    /\ b.status = "returned"
    /\ a.width = b.width
    /\ a.height = b.height
    /\ a.pixels = b.pixels

\* C8: a valid P3 document saved as UTF-16LE with a BOM decodes to the same
\* width, height and pixel bytes as the document saved as 8-bit text.
C8_Utf16SameAsPlain ==
    (pc = "paired" /\ ValidP3Commented(doc)) => SameImage(res, alt)

---------------------------------------------------------------------------
(* C9                                                                      *)

HasHash(tok) == \E k \in 1..Len(tok) : tok[k] = 35

\* The text is plain ASCII: nothing normalizeToken strips is in front of
\* the magic or of a body token.
AsciiText(d) ==
    /\ d.magic \in {TokP3, TokP5}
    /\ (d.bjunk = 0 \/ \A k \in 1..Len(d.jtok) : d.jtok[k] \in 33..126)

\* C9: over the same text nextTokenStr and nextToken return the same
\* sequence of tokens, and no token holds a '#'.
C9_SameTokens ==
    (pc = "tokenized" /\ AsciiText(doc)) =>
        /\ toks.str = toks.raw
        /\ \A k \in 1..Len(toks.str) : ~HasHash(toks.str[k])
        /\ \A k \in 1..Len(toks.raw) : ~HasHash(toks.raw[k])

---------------------------------------------------------------------------
(* C10                                                                     *)

\* A valid P3 document whose maxValue is positive and not 255 and whose
\* channel values all lie in 0..maxValue.
InRangeP3(d) ==
    /\ ValidP3(d)
    /\ d.m > 0
    /\ d.m # 255
    /\ \A j \in 1..Needed(d) : d.body[j] >= 0 /\ d.body[j] <= d.m

\* C10: for a positive maxValue other than 255 and channel values in
\* 0..maxValue, every stored byte is clamp(trunc(v * 255 / maxValue), 0,
\* 255); v = maxValue = 10,000,000 is stored as 255.  (Stated of the builds
\* that go on after a signed overflow; one that traps stores nothing.)
C10_RescaleExact ==
    (Loaded /\ InRangeP3(doc) /\ res.status # "trap")
        => DecodedAsExpected(doc, res)

---------------------------------------------------------------------------
(* C11                                                                     *)

\* A P3 document with maxValue 255 and a decodable header whose tokens are
\* all integers once normalized: the magic may stand behind a no-break
\* space, and one channel value the decoder reads stands behind a prefix
\* normalizeToken strips.
PrefixedP3(d) ==
    /\ DocIsP3(d)
    /\ DecodableSize(d)
    /\ d.cpos = 0
    /\ d.m = 255
    /\ Len(d.body) >= Needed(d)
    /\ d.bjunk \in 1..Needed(d)
    /\ \E pf \in Prefixes : d.jtok = pf \o ToDec(d.body[d.bjunk])

\* C11: every token is normalized before it is interpreted, the P3 pixel
\* tokens included, on the string-parser path and on the raw-stream path:
\* a document with a channel value behind a BOM, a C2 A0 or a byte <= 0x20
\* decodes to the image of its values on every path.
C11_EveryTokenNormalized ==
    (Loaded /\ PrefixedP3(doc)) => DecodedAsExpected(doc, res)

---------------------------------------------------------------------------
(* C12                                                                     *)

\* A P6 file without a BOM whose header declares a decodable size.
P6Header(d) ==
    /\ DocIsP6(d)
    /\ d.enc = "none"
    /\ DecodableSize(d)
    /\ d.cpos = 0

\* The bytes behind the first byte that follows the maxValue token.
P6Data(d) == Tail(d.sep) \o d.body

\* Every such byte the decoder reads is at most maxValue (or maxValue is
\* 255), so no stored byte depends on a clamp (C4).
P6InRange(d) ==
    \/ d.m = 255
    \/ \A j \in 1..Min(Len(P6Data(d)), Needed(d)) : P6Data(d)[j] <= d.m

\* Pixel i (1-based) of the image P6Data(d) holds.
P6DataPixel(d, i) ==
    << ExpectedChannel(P6Data(d)[3 * i], d.m),
       ExpectedChannel(P6Data(d)[3 * i - 1], d.m),
       ExpectedChannel(P6Data(d)[3 * i - 2], d.m),
       0 >>

\* The file ends with the maxValue token: the body bytes, if any, stand
\* directly behind its digits and are read as part of it.
EndsAtSeparator(d) ==
    /\ P6Header(d)
    /\ d.sep = <<>>
    /\ \A j \in 1..Len(d.body) : ~IsSpace(d.body[j]) /\ d.body[j] # 35
    /\ stoi(ToDec(d.m) \o d.body).ok

\* C12: on the P6 path exactly one byte behind the maxValue token is
\* consumed and discarded, whatever its value, and the pixel data starts at
\* the very next byte: the image is decoded from the bytes behind that one
\* byte (behind CR LF the LF is the first channel value), and the load fails
\* inside the pixel data when they are too few; when the stream ends where
\* that byte should be, the load fails there and returns no pixel.
C12_OneSeparatorByte ==
    /\ (Loaded /\ P6Header(doc) /\ Len(doc.sep) >= 1 /\ P6InRange(doc)) =>
          IF Len(P6Data(doc)) >= Needed(doc)
          THEN /\ Populated(res)
               /\ res.width = doc.w
               /\ res.height = doc.h
               /\ \A i \in 1..(doc.w * doc.h) :
                     res.pixels[i] = P6DataPixel(doc, i)
          ELSE EmptyZero(res) /\ res.ret = 295
    /\ (Loaded /\ EndsAtSeparator(doc)) =>
          /\ res.status = "returned"
          /\ res.pixels = <<>>
          /\ res.ret = 288

\* A one-pixel P6 file with CR LF behind maxValue has been decoded: the
\* line feed is the pixel's red byte, and the last body byte was not read.
C12_Witness ==
    /\ Loaded
    /\ P6Header(doc)
    /\ doc.sep = <<13, 10>>
    /\ doc.w * doc.h = 1
    /\ Len(doc.body) = 3
    /\ res.ret = 312
    /\ res.pixels = << <<doc.body[2], doc.body[1], 10, 0>> >>

---------------------------------------------------------------------------
(* C13                                                                     *)

\* The held image is populated: width > 0, height > 0 and
\* pixels.size() = width * height.
HeldPopulated(img) ==
    img.width > 0 /\ img.height > 0 /\ img.size = img.width * img.height

\* The LoadPPM call succeeded: it returned an image with all its pixels.
LoadSucceeded(r) == Populated(r)

\* C13: in every state of the message loop, after main's load/gradient
\* step and after any sequence of File->Open commands, g_image is
\* populated; and whenever g_image is the image LoadPPM last handed back,
\* that call had succeeded (no failed call replaces the held image or
\* keeps the placeholder away).
C13_HeldImagePopulated ==
    pc = "running" =>
        /\ HeldPopulated(g_image)
        /\ (res.status = "returned" /\ g_image = ImageOf(res))
              => LoadSucceeded(res)

=============================================================================
